---- MODULE Spec2Model ----
(***************************************************************************)
(* The client-side data layer of the staff-roster dashboard (App.tsx):     *)
(* the session cache, the cancellable fetch lifecycle of the activation    *)
(* effect, the filter state and filter pipeline, the local delete, the     *)
(* per-key counts and the CSV export.                                      *)
(*                                                                         *)
(* Specifications: Spec (the page on a transport that honours the abort    *)
(* signal), SpecLate (on one that does not), SpecExport (Spec with the     *)
(* export buttons in use), SpecCorrupt (Spec on a malformed cache slot)    *)
(* and SpecView (filtering and deleting on a loaded roster of up to        *)
(* MaxRoster records).                                                     *)
(*                                                                         *)
(* The component state (useState cells) is one state container that        *)
(* outlives an effect lifecycle: the effect can be torn down and run again *)
(* on the same state (React's strict effect re-run), and the setters of a  *)
(* torn-down lifecycle's closure still write to it.                        *)
(*                                                                         *)
(* Strings are sequences of one-character strings, so that trimming,       *)
(* case folding and substring search are computed, not assumed.            *)
(***************************************************************************)
EXTENDS Integers, Sequences, FiniteSets, TLC

VARIABLES
    users,              \* useState<User[]>            (live roster)
    query,              \* useState("")                (committed query)
    deferredQuery,      \* useDeferredValue(query)     (settled query)
    selectedCity,       \* useState("")
    selectedCompany,    \* useState("")
    loading,            \* useState(true)
    error,              \* useState<string | null>(null)
    isUsingCachedData,  \* useState(false)
    storage,            \* sessionStorage slot "users-cache"
    now,                \* Date.now()
    active,             \* the effect is mounted (between its run and its cleanup)
    lifecycle,          \* number of effect runs so far
    fetches,            \* every fetchUsers call so far, in call order
    exportStatus,       \* useState<string | null>(null)
    downloads           \* the CSV files handed to the browser so far

vars == <<users, query, deferredQuery, selectedCity, selectedCompany, loading,
          error, isUsingCachedData, storage, now, active, lifecycle, fetches,
          exportStatus, downloads>>

(***************************************************************************)
(* Bounds of the model.                                                    *)
(***************************************************************************)
MaxLifecycles == 2
MaxElapsed == 300001
MaxDownloads == 1
MaxRoster == 3
MaxRows == 8

(***************************************************************************)
(* Program constants.                                                      *)
(***************************************************************************)
CACHE_TTL_MS == 5 * 60 * 1000

Null == "null"

MSG_OFFLINE == "You're offline. Reconnect to load the staff roster."
MSG_STATUS == "The staff service isn't responding right now. Please try again in a moment."
MSG_INVALID == "The roster data looks incomplete. Please refresh or try again shortly."
MSG_GENERIC == "We couldn't load the staff roster. Please refresh and try again."

(***************************************************************************)
(* Strings.                                                                *)
(***************************************************************************)
Undefined == <<"undefined">>

LowerChar(c) ==
    CASE c = "A" -> "a"
      [] c = "B" -> "b"
      [] c = "E" -> "e"
      [] c = "N" -> "n"
      [] c = "U" -> "u"
      [] c = "Y" -> "y"
      [] c = "Z" -> "z"
      [] OTHER -> c

ToLowerCase(s) == [i \in 1..Len(s) |-> LowerChar(s[i])]

RECURSIVE TrimStart(_)
TrimStart(s) ==
    IF s # <<>> /\ Head(s) = " " THEN TrimStart(Tail(s)) ELSE s

RECURSIVE TrimEnd(_)
TrimEnd(s) ==
    IF s # <<>> /\ s[Len(s)] = " " THEN TrimEnd(SubSeq(s, 1, Len(s) - 1)) ELSE s

Trim(s) == TrimEnd(TrimStart(s))

Includes(s, sub) ==
    \E i \in 0..(Len(s) - Len(sub)) : SubSeq(s, i + 1, i + Len(sub)) = sub

(***************************************************************************)
(* Person records.  A record as the service or the cache serialises it has *)
(* the five fields; a record in memory is an object, so it also has its    *)
(* reference `ref`: two objects with equal fields are still two objects.   *)
(***************************************************************************)
Person(id, name, email, city, company) ==
    [id |-> id, name |-> name, email |-> email, city |-> city, company |-> company]

Ann == Person(<<"1">>, <<"A", "n", "n">>, <<"a", "@", "x">>, <<"N", "Y">>, <<"A", "c">>)
Bob == Person(<<"2">>, <<"B", "o", "b">>, <<"b", "@", "x">>, <<"n", "y">>, Undefined)
Zed == Person(Undefined, <<"a", "n", "n", "a">>, <<"z", "@", "x">>, Undefined, <<"Z">>)
Uma == Person(<<"4">>, <<"U", ",", "m">>, <<"u", "@", "x">>, <<"A", "\n", "b">>, Undefined)
Eve == Person(<<"3">>, <<"E", "\"", "e">>, <<"e", "@", "x">>, <<"N", "y", " ">>, <<>>)

\* The rosters the remote service may answer with.
ApiRosters == {<<>>, <<Ann, Bob>>}

\* The rosters a cache entry left by an earlier page of the session may hold.
CachedRosters == {<<>>, <<Zed>>}

\* JSON.parse / response.json(): every element becomes a new object.
Deserialize(data) ==
    [i \in 1..Len(data) |->
        [ref |-> i, id |-> data[i].id, name |-> data[i].name, email |-> data[i].email,
         city |-> data[i].city, company |-> data[i].company]]

\* JSON.stringify: the fields are written, the object identity is not.
Serialize(list) ==
    [i \in 1..Len(list) |->
        Person(list[i].id, list[i].name, list[i].email, list[i].city, list[i].company)]

(***************************************************************************)
(* Roster cache: the sessionStorage slot and its two accessors.            *)
(* A stored string is modelled by what JSON.parse makes of it.             *)
(***************************************************************************)
Stored(kind, dataIsArray, tsIsNumber, timestamp, data) ==
    [kind |-> kind, dataIsArray |-> dataIsArray, tsIsNumber |-> tsIsNumber,
     timestamp |-> timestamp, data |-> data]

StoredAbsent == Stored("absent", FALSE, FALSE, 0, <<>>)
StoredUnparsable == Stored("unparsable", FALSE, FALSE, 0, <<>>)
StoredEntry(timestamp, data) == Stored("object", TRUE, TRUE, timestamp, data)

NoCache == [present |-> FALSE, timestamp |-> 0, data |-> <<>>]

\* Faulty variant of readCachedUsers: whatever parses is returned, unvalidated.
readCachedUsersUnchecked(s) ==
    IF s.kind \in {"absent", "empty", "unparsable"} THEN NoCache
    ELSE [present |-> TRUE, timestamp |-> s.timestamp, data |-> s.data]

readCachedUsers(s) ==
    IF s.kind \in {"absent", "empty"} THEN NoCache
    ELSE IF s.kind = "unparsable" THEN NoCache
    ELSE IF s.kind # "object" \/ ~s.dataIsArray \/ ~s.tsIsNumber THEN NoCache
    ELSE [present |-> TRUE, timestamp |-> s.timestamp, data |-> s.data]

writeCachedUsers(data, t) == StoredEntry(t, Serialize(data))

(***************************************************************************)
(* What a fetch can throw, and the message shown for it.                   *)
(***************************************************************************)
\* `cause` is what went wrong; the code sees only `name` and `message`.
Thrown(cause, name, message) == [cause |-> cause, name |-> name, message |-> message]

NetworkError == Thrown("network", "TypeError", "Failed to fetch")
ParseError == Thrown("parse", "SyntaxError", "Unexpected token < in JSON at position 0")
QuotaError == Thrown("quota", "QuotaExceededError", "The quota has been exceeded.")
InvalidError == Thrown("invalid", "Error", "Invalid API response")
StatusError(status) ==
    Thrown("status", "Error", IF status = 404 THEN "Request failed with status 404"
                                               ELSE "Request failed with status 500")

FailStatuses == {404, 500}

StartsWithRequestFailed(message) ==
    message \in {"Request failed with status 404", "Request failed with status 500"}

buildErrorMessage(fetchError, onLine) ==
    IF ~onLine THEN MSG_OFFLINE
    ELSE IF StartsWithRequestFailed(fetchError.message) THEN MSG_STATUS
    ELSE IF fetchError.message = "Invalid API response" THEN MSG_INVALID
    ELSE MSG_GENERIC

(***************************************************************************)
(* Derived values of a render.                                             *)
(***************************************************************************)
\* Faulty variant of searchIndex: the index is not rebuilt when the roster
\* changes, it still lists the records of the first loaded payload.
searchIndexOfLoaded ==
    LET list == IF Len(fetches) > 0 /\ fetches[1].outcome = "ok"
                THEN Deserialize(fetches[1].received) ELSE users
    IN  [i \in 1..Len(list) |-> [user |-> list[i], searchName |-> ToLowerCase(list[i].name)]]

searchIndex ==
    [i \in 1..Len(users) |-> [user |-> users[i], searchName |-> ToLowerCase(users[i].name)]]

CityOf(user) == IF user.city = Undefined THEN Undefined ELSE ToLowerCase(user.city)
CompanyOf(user) == IF user.company = Undefined THEN Undefined ELSE ToLowerCase(user.company)

\* s, last element first
Reverse(s) == [i \in 1..Len(s) |-> s[Len(s) + 1 - i]]

\* Faulty variant of filterUsers: the name matches are collected newest first.
filterUsersNewestFirst(list, index, dq, city, company) ==
    LET normalized == ToLowerCase(Trim(dq))
        normalizedCity == ToLowerCase(Trim(city))
        normalizedCompany == ToLowerCase(Trim(company))
        HitName(entry) == Includes(entry.searchName, normalized)
        hits == Reverse(SelectSeq(index, HitName))
        filteredByQuery ==
            IF normalized # <<>> THEN [i \in 1..Len(hits) |-> hits[i].user] ELSE list
        Keep(user) ==
            /\ ~(normalizedCity # <<>> /\ CityOf(user) # normalizedCity)
            /\ ~(normalizedCompany # <<>> /\ CompanyOf(user) # normalizedCompany)
    IN  SelectSeq(filteredByQuery, Keep)

\* Faulty variant of filterUsers: the settled query is not trimmed.
filterUsersUntrimmed(list, index, dq, city, company) ==
    LET normalized == ToLowerCase(dq)
        normalizedCity == ToLowerCase(Trim(city))
        normalizedCompany == ToLowerCase(Trim(company))
        HitName(entry) == Includes(entry.searchName, normalized)
        hits == SelectSeq(index, HitName)
        filteredByQuery ==
            IF normalized # <<>> THEN [i \in 1..Len(hits) |-> hits[i].user] ELSE list
        Keep(user) ==
            /\ ~(normalizedCity # <<>> /\ CityOf(user) # normalizedCity)
            /\ ~(normalizedCompany # <<>> /\ CompanyOf(user) # normalizedCompany)
    IN  SelectSeq(filteredByQuery, Keep)

filterUsers(list, index, dq, city, company) ==
    LET normalized == ToLowerCase(Trim(dq))
        normalizedCity == ToLowerCase(Trim(city))
        normalizedCompany == ToLowerCase(Trim(company))
        HitName(entry) == Includes(entry.searchName, normalized)
        hits == SelectSeq(index, HitName)
        filteredByQuery ==
            IF normalized # <<>> THEN [i \in 1..Len(hits) |-> hits[i].user] ELSE list
        Keep(user) ==
            /\ ~(normalizedCity # <<>> /\ CityOf(user) # normalizedCity)
            /\ ~(normalizedCompany # <<>> /\ CompanyOf(user) # normalizedCompany)
    IN  SelectSeq(filteredByQuery, Keep)

\* Faulty variant of filteredUsers: the memo is not recomputed when the roster
\* changes, so it still holds the records of the first loaded payload.
filteredUsersOfLoaded ==
    IF Len(fetches) > 0 /\ fetches[1].outcome = "ok"
    THEN LET list == Deserialize(fetches[1].received)
         IN  filterUsers(list,
                         [i \in 1..Len(list) |->
                             [user |-> list[i], searchName |-> ToLowerCase(list[i].name)]],
                         deferredQuery, selectedCity, selectedCompany)
    ELSE filterUsers(users, searchIndex, deferredQuery, selectedCity, selectedCompany)

\* Faulty variant of filteredUsers: the filter reads the committed query.
filteredUsersUndeferred ==
    filterUsers(users, searchIndex, query, selectedCity, selectedCompany)

filteredUsers == filterUsers(users, searchIndex, deferredQuery, selectedCity, selectedCompany)

\* the key functions handed to buildCounts, (user) => user.address?.city and
\* (user) => user.company?.name, each named by the field it reads
cityKey == "city"
companyKey == "company"

\* the keys of the records of `list`, in order
keysOf(list, getKey) == [i \in 1..Len(list) |-> list[i][getKey]]

\* Faulty variant of countKey: only a nullish key is skipped.
countKeyNullish(counts, key) ==
    IF key = Undefined THEN counts
    ELSE IF \E k \in 1..Len(counts) : counts[k][1] = key
    THEN [k \in 1..Len(counts) |->
             IF counts[k][1] = key THEN <<key, counts[k][2] + 1>> ELSE counts[k]]
    ELSE Append(counts, <<key, 1>>)

\* one turn of the forEach on the Map, held as its entries in insertion order:
\* if (!key) return; counts.set(key, (counts.get(key) ?? 0) + 1)
countKey(counts, key) ==
    IF key = Undefined \/ key = <<>> THEN counts
    ELSE IF \E k \in 1..Len(counts) : counts[k][1] = key
    THEN [k \in 1..Len(counts) |->
             IF counts[k][1] = key THEN <<key, counts[k][2] + 1>> ELSE counts[k]]
    ELSE Append(counts, <<key, 1>>)

RECURSIVE countKeys(_, _)
countKeys(counts, keys) ==
    IF keys = <<>> THEN counts ELSE countKeys(countKey(counts, Head(keys)), Tail(keys))

\* Faulty variant of insertByCount: an entry goes before the entries of equal count.
insertByCountUnstable(sorted, entry) ==
    LET p == Cardinality({k \in 1..Len(sorted) : sorted[k][2] > entry[2]})
    IN  SubSeq(sorted, 1, p) \o <<entry>> \o SubSeq(sorted, p + 1, Len(sorted))

\* sort((a, b) => b[1] - a[1]) is stable: an entry goes behind every entry
\* already placed whose count is not smaller
insertByCount(sorted, entry) ==
    LET p == Cardinality({k \in 1..Len(sorted) : sorted[k][2] >= entry[2]})
    IN  SubSeq(sorted, 1, p) \o <<entry>> \o SubSeq(sorted, p + 1, Len(sorted))

RECURSIVE sortByCount(_)
sortByCount(entries) ==
    IF entries = <<>> THEN <<>>
    ELSE insertByCount(sortByCount(SubSeq(entries, 1, Len(entries) - 1)),
                       entries[Len(entries)])

buildCounts(list, getKey) == sortByCount(countKeys(<<>>, keysOf(list, getKey)))

cityCounts == buildCounts(users, cityKey)
companyCounts == buildCounts(users, companyKey)
filteredCityCounts == buildCounts(filteredUsers, cityKey)
filteredCompanyCounts == buildCounts(filteredUsers, companyKey)

totalUsers == Len(users)
filteredTotal == Len(filteredUsers)

\* Faulty variant of uniqueCities: the cities of the filtered records are counted.
uniqueCitiesFiltered == Len(filteredCityCounts)

uniqueCities == Len(cityCounts)
uniqueCompanies == Len(companyCounts)

\* Math.round(num / den): the nearest integer, a half rounded up (num >= 0, den > 0)
MathRound(num, den) == (2 * num + den) \div (2 * den)

\* Faulty variant of coverage: an empty roster counts as fully covered.
coverageOfEmptyFull ==
    IF totalUsers > 0 THEN MathRound(filteredTotal * 100, totalUsers) ELSE 100

\* totalUsers > 0 ? Math.round((filteredTotal / totalUsers) * 100) : 0
coverage == IF totalUsers > 0 THEN MathRound(filteredTotal * 100, totalUsers) ELSE 0

\* UserTable.tsx
ROW_HEIGHT == 56
MAX_LIST_HEIGHT == 360

Min(a, b) == IF a <= b THEN a ELSE b

\* Faulty variant of listHeight: the height is not capped.
listHeightUncapped == Len(filteredUsers) * ROW_HEIGHT

\* Math.min(users.length * ROW_HEIGHT, MAX_LIST_HEIGHT), users being the prop
listHeight == Min(Len(filteredUsers) * ROW_HEIGHT, MAX_LIST_HEIGHT)

filtersDisabled == loading \/ (Len(users) = 0 /\ error # Null)

\* the error notice is rendered
errorShown == ~loading /\ error # Null

\* <UserTable> is rendered
tableShown == ~loading /\ (error = Null \/ isUsingCachedData)

\* String(n) for a natural number
Digits == <<"0", "1", "2", "3", "4", "5", "6", "7", "8", "9">>

RECURSIVE NumberToString(_)
NumberToString(n) ==
    IF n < 10 THEN <<Digits[n + 1]>>
    ELSE NumberToString(n \div 10) \o <<Digits[(n % 10) + 1]>>

\* getRowKey(index, data) with data.users = list; `index` counts from 0
getRowKey(index, list) ==
    IF index + 1 \notin 1..Len(list)
    THEN <<"r", "o", "w", "-">> \o NumberToString(index)
    ELSE IF list[index + 1].id # Undefined THEN list[index + 1].id
    ELSE list[index + 1].email

\* the keys FixedSizeList gives the rows of the displayed sequence
rowKeys == [i \in 1..Len(filteredUsers) |-> getRowKey(i - 1, filteredUsers)]

\* <FixedSizeList> is rendered / the empty-state paragraph is rendered
listRendered == tableShown /\ Len(filteredUsers) > 0
emptyStateShown == tableShown /\ ~(Len(filteredUsers) > 0)

(***************************************************************************)
(* Export: the status line and the CSV text of handleExport.               *)
(***************************************************************************)
\* exportStatus is null or one of the two texts; the template's two holes are
\* kept beside the text.
NoExportStatus == [text |-> Null, count |-> 0, label |-> ""]
NothingToExport ==
    [text |-> "No staff profiles are available to export.", count |-> 0, label |-> ""]
Exported(count, label) ==
    [text |-> "Exported ${entries.length} profiles from the ${label}.",
     count |-> count, label |-> label]

header == << <<"N", "a", "m", "e">>, <<"E", "m", "a", "i", "l">>, <<"C", "i", "t", "y">>,
             <<"C", "o", "m", "p", "a", "n", "y">> >>

\* value ?? ""
OrEmpty(value) == IF value = Undefined THEN <<>> ELSE value

\* value.replace(/"/g, "\"\"")
RECURSIVE EscapeQuotes(_)
EscapeQuotes(value) ==
    IF value = <<>> THEN <<>>
    ELSE (IF Head(value) = "\"" THEN <<"\"", "\"">> ELSE <<Head(value)>>)
         \o EscapeQuotes(Tail(value))

Quoted(value) == <<"\"">> \o EscapeQuotes(value) \o <<"\"">>

\* Array.prototype.join
RECURSIVE Join(_, _)
Join(parts, sep) ==
    IF parts = <<>> THEN <<>>
    ELSE IF Len(parts) = 1 THEN parts[1]
    ELSE parts[1] \o sep \o Join(Tail(parts), sep)

\* the placeholder the table shows for an absent city or company: the one
\* character U+2014, named here by its Unicode name
Placeholder == <<"EM DASH">>

\* UserRow: {user.address?.city ?? placeholder}, {user.company?.name ?? placeholder}
cellText(value) == IF value = Undefined THEN Placeholder ELSE value

\* Faulty variant of csvFields: an absent value is written as the table shows it.
csvFieldsAsDisplayed(user) ==
    <<cellText(user.name), cellText(user.email), cellText(user.city),
      cellText(user.company)>>

csvFields(user) ==
    <<OrEmpty(user.name), OrEmpty(user.email), OrEmpty(user.city), OrEmpty(user.company)>>

csvLine(row) == Join([k \in 1..Len(row) |-> Quoted(row[k])], <<",">>)

csvRows(entries) ==
    Join(<<csvLine(header)>> \o [i \in 1..Len(entries) |-> csvLine(csvFields(entries[i]))],
         <<"\n">>)

(***************************************************************************)
(* Initial state: the component's useState initial values, before the      *)
(* effect has run, on a session whose cache slot holds any of these.       *)
(***************************************************************************)
T0 == 2 * CACHE_TTL_MS

InitialStorage ==
    {StoredAbsent, StoredUnparsable}
    \cup {StoredEntry(t, d) : t \in {T0 - CACHE_TTL_MS - 1, T0 - CACHE_TTL_MS},
                              d \in CachedRosters}

Queries == {<<>>, <<" ", "A", "N">>}
Cities == {<<>>, <<"N", "y">>}
Companies == {<<>>, <<"z">>}
TickSteps == {CACHE_TTL_MS + 1}

Init ==
    /\ users = <<>>
    /\ query = <<>>
    /\ deferredQuery = <<>>
    /\ selectedCity = <<>>
    /\ selectedCompany = <<>>
    /\ loading = TRUE
    /\ error = Null
    /\ isUsingCachedData = FALSE
    /\ storage \in InitialStorage
    /\ now = T0
    /\ active = FALSE
    /\ lifecycle = 0
    /\ fetches = <<>>
    /\ exportStatus = NoExportStatus
    /\ downloads = <<>>

(***************************************************************************)
(* The activation effect.                                                  *)
(***************************************************************************)
NewFetch(lc, showLoading, hasCachedData) ==
    [lc |-> lc, showLoading |-> showLoading, hasCachedData |-> hasCachedData,
     aborted |-> FALSE, stage |-> "fetch", outcome |-> "pending", received |-> <<>>,
     shown |-> Null]

\* Faulty variant of isStale: an entry exactly TTL old already counts as stale.
isStaleInclusive(cached, t) == ~cached.present \/ t - cached.timestamp >= CACHE_TTL_MS

isStale(cached, t) == ~cached.present \/ t - cached.timestamp > CACHE_TTL_MS

hasCachedDataOf(cached) == cached.present /\ Len(cached.data) > 0

\* if (!cached || isStale) fetchUsers(!cached, hasCachedData)
shouldFetch(cached, t) == ~cached.present \/ isStale(cached, t)

\* the fetchUsers calls one run of the effect makes
fetchCalls(cached, t, lc) ==
    IF shouldFetch(cached, t)
    THEN <<NewFetch(lc, ~cached.present, hasCachedDataOf(cached))>>
    ELSE <<>>

\* Faulty variant of loadingOnActivate: the cache hit does not call setLoading(false).
loadingOnActivateKept(cached, calls, cur) ==
    IF \E k \in 1..Len(calls) : calls[k].showLoading THEN TRUE ELSE cur

\* setLoading as the effect body and the synchronous head of fetchUsers leave it
loadingOnActivate(cached, calls, cur) ==
    IF \E k \in 1..Len(calls) : calls[k].showLoading THEN TRUE
    ELSE IF cached.present THEN FALSE
    ELSE cur

Activate ==
    /\ ~active
    /\ lifecycle < MaxLifecycles
    /\ LET cached == readCachedUsers(storage)
           calls == fetchCalls(cached, now, lifecycle + 1)
       IN  /\ users' = IF cached.present THEN Deserialize(cached.data) ELSE users
           /\ isUsingCachedData' = IF cached.present THEN TRUE ELSE isUsingCachedData
           /\ loading' = loadingOnActivate(cached, calls, loading)
           /\ error' = IF calls # <<>> THEN Null ELSE error
           /\ fetches' = fetches \o calls
    /\ active' = TRUE
    /\ lifecycle' = lifecycle + 1
    /\ UNCHANGED <<query, deferredQuery, selectedCity, selectedCompany, storage, now,
                   exportStatus, downloads>>

\* return () => controller.abort()
abortSignal(f, lc) ==
    IF f.lc = lc /\ f.stage # "done" THEN [f EXCEPT !.aborted = TRUE] ELSE f

Teardown ==
    /\ active
    /\ active' = FALSE
    /\ fetches' = [k \in 1..Len(fetches) |-> abortSignal(fetches[k], lifecycle)]
    /\ UNCHANGED <<users, query, deferredQuery, selectedCity, selectedCompany, loading,
                   error, isUsingCachedData, storage, now, lifecycle,
                   exportStatus, downloads>>

(***************************************************************************)
(* fetchUsers after an await: the continuations.                           *)
(***************************************************************************)
\* The record of a settled call keeps, for the properties, what the transport
\* delivered (`outcome`, `received`) and the message the call set (`shown`).
Settled(i, outcome, received, shown) ==
    [fetches EXCEPT ![i] = [@ EXCEPT !.stage = "done", !.outcome = outcome,
                                     !.received = received, !.shown = shown]]

\* Faulty variant of finallyLoading: the finally block does not clear the flag.
finallyLoadingKept(showLoading, cur) == cur

\* finally { if (showLoading) setLoading(false) }
finallyLoading(showLoading, cur) == IF showLoading THEN FALSE ELSE cur

\* catch: the error is an AbortError
catchAbort(i) ==
    /\ loading' = finallyLoading(fetches[i].showLoading, loading)
    /\ fetches' = Settled(i, "abort", <<>>, Null)
    /\ UNCHANGED <<users, query, deferredQuery, selectedCity, selectedCompany, error,
                   isUsingCachedData, storage, now, active, lifecycle,
                   exportStatus, downloads>>

\* Faulty variant of rosterOnFailure: the roster is cleared whatever was cached.
rosterOnFailureCleared(hasCachedData, list) == <<>>

\* the roster the catch block leaves, given the roster set before the throw
rosterOnFailure(hasCachedData, list) == IF hasCachedData THEN list ELSE <<>>

\* Faulty variant of filterOnFailure: the filter selection survives every failure.
filterOnFailureKept(hasCachedData, value) == value

\* the filter value the catch block leaves
filterOnFailure(hasCachedData, value) == IF hasCachedData THEN value ELSE <<>>

\* Faulty variant of catchFailure: the catch block calls fetchUsers again.
catchFailureRetrying(i, fetchError, onLine, received, list) ==
    /\ error' = buildErrorMessage(fetchError, onLine)
    /\ users' = rosterOnFailure(fetches[i].hasCachedData, list)
    /\ query' = filterOnFailure(fetches[i].hasCachedData, query)
    /\ selectedCity' = filterOnFailure(fetches[i].hasCachedData, selectedCity)
    /\ selectedCompany' = filterOnFailure(fetches[i].hasCachedData, selectedCompany)
    /\ loading' = finallyLoading(fetches[i].showLoading, loading)
    /\ fetches' = Append(Settled(i, fetchError.cause, received,
                                 buildErrorMessage(fetchError, onLine)),
                         NewFetch(fetches[i].lc, fetches[i].showLoading,
                                  fetches[i].hasCachedData))
    /\ UNCHANGED <<deferredQuery, isUsingCachedData, storage, now, active, lifecycle,
                   exportStatus, downloads>>

\* catch: any other error, thrown when the roster state was `list`
\* (navigator.onLine is read when the message is built: `onLine` is its value then)
catchFailure(i, fetchError, onLine, received, list) ==
    /\ error' = buildErrorMessage(fetchError, onLine)
    /\ users' = rosterOnFailure(fetches[i].hasCachedData, list)
    /\ query' = filterOnFailure(fetches[i].hasCachedData, query)
    /\ selectedCity' = filterOnFailure(fetches[i].hasCachedData, selectedCity)
    /\ selectedCompany' = filterOnFailure(fetches[i].hasCachedData, selectedCompany)
    /\ loading' = finallyLoading(fetches[i].showLoading, loading)
    /\ fetches' = Settled(i, fetchError.cause, received, buildErrorMessage(fetchError, onLine))
    /\ UNCHANGED <<deferredQuery, isUsingCachedData, storage, now, active, lifecycle,
                   exportStatus, downloads>>

\* Faulty variant of applyPayload: a background refresh keeps the local deletes,
\* it publishes only the payload's records that are still in the live roster.
applyPayloadKeepingDeletes(i, data) ==
    /\ users' = IF fetches[i].showLoading THEN Deserialize(data)
                ELSE LET StillShown(item) ==
                             \E k \in 1..Len(users) :
                                 Serialize(<<users[k]>>) = Serialize(<<item>>)
                     IN  SelectSeq(Deserialize(data), StillShown)
    /\ storage' = writeCachedUsers(Deserialize(data), now)
    /\ isUsingCachedData' = FALSE
    /\ loading' = finallyLoading(fetches[i].showLoading, loading)
    /\ fetches' = Settled(i, "ok", data, Null)
    /\ UNCHANGED <<query, deferredQuery, selectedCity, selectedCompany, error, now,
                   active, lifecycle, exportStatus, downloads>>

\* setUsers(payload.data); writeCachedUsers(payload.data); setIsUsingCachedData(false)
applyPayload(i, data) ==
    /\ users' = Deserialize(data)
    /\ storage' = writeCachedUsers(Deserialize(data), now)
    /\ isUsingCachedData' = FALSE
    /\ loading' = finallyLoading(fetches[i].showLoading, loading)
    /\ fetches' = Settled(i, "ok", data, Null)
    /\ UNCHANGED <<query, deferredQuery, selectedCity, selectedCompany, error, now,
                   active, lifecycle, exportStatus, downloads>>

(***************************************************************************)
(* The transport resolves an await of fetchUsers.  `Step` operators are    *)
(* the continuation that then runs; the actions below say when the         *)
(* transport may resolve that way.                                         *)
(***************************************************************************)
Awaiting(i, stage) == i \in 1..Len(fetches) /\ fetches[i].stage = stage

\* await fetch(...) resolves with response.ok: go on to await response.json()
ResponseOkStep(i) ==
    /\ Awaiting(i, "fetch")
    /\ fetches' = [fetches EXCEPT ![i].stage = "json"]
    /\ UNCHANGED <<users, query, deferredQuery, selectedCity, selectedCompany, loading,
                   error, isUsingCachedData, storage, now, active, lifecycle,
                   exportStatus, downloads>>

\* await fetch(...) resolves with !response.ok
ResponseStatusStep(i) ==
    /\ Awaiting(i, "fetch")
    /\ \E status \in FailStatuses, onLine \in BOOLEAN :
          catchFailure(i, StatusError(status), onLine, <<>>, users)

\* await fetch(...) rejects: the network is unreachable
NetworkFailStep(i) ==
    /\ Awaiting(i, "fetch")
    /\ \E onLine \in BOOLEAN : catchFailure(i, NetworkError, onLine, <<>>, users)

\* await response.json() rejects: the body is not JSON
BodyUnparsableStep(i) ==
    /\ Awaiting(i, "json")
    /\ \E onLine \in BOOLEAN : catchFailure(i, ParseError, onLine, <<>>, users)

\* Faulty variant of BodyInvalidStep: the payload is not validated, so a payload
\* without a data array is stored and published as if it were a roster.
BodyInvalidStepUnvalidated(i) ==
    /\ Awaiting(i, "json")
    /\ users' = <<>>
    /\ storage' = Stored("object", FALSE, TRUE, now, <<>>)
    /\ isUsingCachedData' = FALSE
    /\ loading' = finallyLoading(fetches[i].showLoading, loading)
    /\ fetches' = Settled(i, "invalid", <<>>, Null)
    /\ UNCHANGED <<query, deferredQuery, selectedCity, selectedCompany, error, now,
                   active, lifecycle, exportStatus, downloads>>

\* await response.json() resolves with null or with data that is no array
BodyInvalidStep(i) ==
    /\ Awaiting(i, "json")
    /\ \E onLine \in BOOLEAN : catchFailure(i, InvalidError, onLine, <<>>, users)

\* await response.json() resolves with a roster and the cache write succeeds
BodyValidStep(i) ==
    /\ Awaiting(i, "json")
    /\ \E data \in ApiRosters : applyPayload(i, data)

\* await response.json() resolves with a roster and sessionStorage.setItem throws
CacheWriteFailStep(i) ==
    /\ Awaiting(i, "json")
    /\ \E data \in ApiRosters, onLine \in BOOLEAN :
          catchFailure(i, QuotaError, onLine, data, Deserialize(data))

Live(i) == i \in 1..Len(fetches) /\ ~fetches[i].aborted
Cancelled(i) == i \in 1..Len(fetches) /\ fetches[i].aborted

ResponseOk == \E i \in 1..Len(fetches) : Live(i) /\ ResponseOkStep(i)
ResponseStatus == \E i \in 1..Len(fetches) : Live(i) /\ ResponseStatusStep(i)
NetworkFail == \E i \in 1..Len(fetches) : Live(i) /\ NetworkFailStep(i)
BodyUnparsable == \E i \in 1..Len(fetches) : Live(i) /\ BodyUnparsableStep(i)
BodyInvalid == \E i \in 1..Len(fetches) : Live(i) /\ BodyInvalidStep(i)
BodyValid == \E i \in 1..Len(fetches) : Live(i) /\ BodyValidStep(i)
CacheWriteFail == \E i \in 1..Len(fetches) : Live(i) /\ CacheWriteFailStep(i)

\* an aborted request rejects its pending await with an AbortError
Aborted ==
    \E i \in 1..Len(fetches) :
        /\ Cancelled(i)
        /\ fetches[i].stage \in {"fetch", "json"}
        /\ catchAbort(i)

(***************************************************************************)
(* The user and the environment.                                           *)
(***************************************************************************)
SetQuery ==
    /\ ~filtersDisabled
    /\ \E q \in Queries : q # query /\ query' = q
    /\ UNCHANGED <<users, deferredQuery, selectedCity, selectedCompany, loading, error,
                   isUsingCachedData, storage, now, active, lifecycle, fetches,
                   exportStatus, downloads>>

\* useDeferredValue catches up with the committed query
SettleQuery ==
    /\ deferredQuery # query
    /\ deferredQuery' = query
    /\ UNCHANGED <<users, query, selectedCity, selectedCompany, loading, error,
                   isUsingCachedData, storage, now, active, lifecycle, fetches,
                   exportStatus, downloads>>

SetSelectedCity ==
    /\ ~filtersDisabled
    /\ \E c \in Cities : c # selectedCity /\ selectedCity' = c
    /\ UNCHANGED <<users, query, deferredQuery, selectedCompany, loading, error,
                   isUsingCachedData, storage, now, active, lifecycle, fetches,
                   exportStatus, downloads>>

SetSelectedCompany ==
    /\ ~filtersDisabled
    /\ \E c \in Companies : c # selectedCompany /\ selectedCompany' = c
    /\ UNCHANGED <<users, query, deferredQuery, selectedCity, loading, error,
                   isUsingCachedData, storage, now, active, lifecycle, fetches,
                   exportStatus, downloads>>

ResetFilters ==
    /\ ~filtersDisabled
    /\ <<query, selectedCity, selectedCompany>> # <<(<<>>), (<<>>), (<<>>)>>
    /\ query' = <<>>
    /\ selectedCity' = <<>>
    /\ selectedCompany' = <<>>
    /\ UNCHANGED <<users, deferredQuery, loading, error, isUsingCachedData, storage, now,
                   active, lifecycle, fetches, exportStatus, downloads>>

\* Faulty variant of handleDelete: records are compared field by field.
handleDeleteByValue(prev, user) ==
    LET Other(item) == Serialize(<<item>>) # Serialize(<<user>>) IN SelectSeq(prev, Other)

\* prev.filter((item) => item !== user)
handleDelete(prev, user) ==
    LET Other(item) == item.ref # user.ref IN SelectSeq(prev, Other)

\* Faulty variant of Delete: the shortened roster is written through to the cache.
DeleteWriteThrough ==
    /\ tableShown
    /\ \E k \in 1..Len(filteredUsers) :
          /\ users' = handleDelete(users, filteredUsers[k])
          /\ storage' = writeCachedUsers(handleDelete(users, filteredUsers[k]), now)
    /\ UNCHANGED <<query, deferredQuery, selectedCity, selectedCompany, loading, error,
                   isUsingCachedData, now, active, lifecycle, fetches,
                   exportStatus, downloads>>

Delete ==
    /\ tableShown
    /\ \E k \in 1..Len(filteredUsers) : users' = handleDelete(users, filteredUsers[k])
    /\ UNCHANGED <<query, deferredQuery, selectedCity, selectedCompany, loading, error,
                   isUsingCachedData, storage, now, active, lifecycle, fetches,
                   exportStatus, downloads>>

\* Faulty variant of handleExport: an empty sequence is exported like any other.
handleExportUnguarded(entries, label) ==
    /\ Len(downloads) < MaxDownloads
    /\ downloads' = Append(downloads, csvRows(entries))
    /\ exportStatus' = Exported(Len(entries), label)

\* handleExport(entries, label); a download is one more file handed to the browser
handleExport(entries, label) ==
    IF Len(entries) = 0
    THEN /\ exportStatus' = NothingToExport
         /\ downloads' = downloads
    ELSE /\ Len(downloads) < MaxDownloads
         /\ downloads' = Append(downloads, csvRows(entries))
         /\ exportStatus' = Exported(Len(entries), label)

\* the "Download report" button
DownloadReport ==
    /\ handleExport(users, "full roster")
    /\ UNCHANGED <<users, query, deferredQuery, selectedCity, selectedCompany, loading,
                   error, isUsingCachedData, storage, now, active, lifecycle, fetches>>

\* the "Export roster" button
ExportRoster ==
    /\ ~loading
    /\ handleExport(filteredUsers, "filtered roster")
    /\ UNCHANGED <<users, query, deferredQuery, selectedCity, selectedCompany, loading,
                   error, isUsingCachedData, storage, now, active, lifecycle, fetches>>

Tick ==
    /\ \E d \in TickSteps : now + d <= T0 + MaxElapsed /\ now' = now + d
    /\ UNCHANGED <<users, query, deferredQuery, selectedCity, selectedCompany, loading,
                   error, isUsingCachedData, storage, active, lifecycle, fetches,
                   exportStatus, downloads>>

Next ==
    \/ Activate
    \/ Teardown
    \/ ResponseOk
    \/ ResponseStatus
    \/ NetworkFail
    \/ BodyUnparsable
    \/ BodyInvalid
    \/ BodyValid
    \/ CacheWriteFail
    \/ Aborted
    \/ SetQuery
    \/ SettleQuery
    \/ SetSelectedCity
    \/ SetSelectedCompany
    \/ ResetFilters
    \/ Delete
    \/ Tick

Spec == Init /\ [][Next]_vars

(***************************************************************************)
(* The same program on a transport that does not honour the abort signal:  *)
(* a cancelled request may still resolve as if it had not been cancelled.  *)
(***************************************************************************)
LateDelivery ==
    \E i \in 1..Len(fetches) :
        /\ Cancelled(i)
        /\ \/ ResponseOkStep(i)
           \/ ResponseStatusStep(i)
           \/ NetworkFailStep(i)
           \/ BodyUnparsableStep(i)
           \/ BodyInvalidStep(i)
           \/ BodyValidStep(i)
           \/ CacheWriteFailStep(i)

NextLate == Next \/ LateDelivery

SpecLate == Init /\ [][NextLate]_vars

(***************************************************************************)
(* The program on a transport that resolves every request it was handed:   *)
(* a pending await of fetchUsers is eventually resumed, with a response, a *)
(* failure or the AbortError.                                              *)
(***************************************************************************)
Resolve ==
    \/ ResponseOk
    \/ ResponseStatus
    \/ NetworkFail
    \/ BodyUnparsable
    \/ BodyInvalid
    \/ BodyValid
    \/ CacheWriteFail
    \/ Aborted

\* the effect and the transport alone: no step of the user touches the
\* loading flag, the cache entry or a request
NextResolving == Activate \/ Teardown \/ Resolve \/ Tick

SpecResolving == Init /\ [][NextResolving]_vars /\ WF_vars(Resolve)

(***************************************************************************)
(* The program with the two export buttons in use.                         *)
(***************************************************************************)
NextExport == Next \/ DownloadReport \/ ExportRoster

SpecExport == Init /\ [][NextExport]_vars

(***************************************************************************)
(* The program on a session whose cache slot holds a value that is no      *)
(* cache entry: not JSON, JSON that is no object, an object whose data is  *)
(* no array, an object whose timestamp is no number.                       *)
(***************************************************************************)
CorruptStorage ==
    {StoredUnparsable,
     Stored("scalar", FALSE, FALSE, 0, <<>>),
     Stored("object", FALSE, TRUE, T0, <<Zed>>),
     Stored("object", TRUE, FALSE, 0, <<Zed>>)}

InitCorrupt ==
    /\ users = <<>>
    /\ query = <<>>
    /\ deferredQuery = <<>>
    /\ selectedCity = <<>>
    /\ selectedCompany = <<>>
    /\ loading = TRUE
    /\ error = Null
    /\ isUsingCachedData = FALSE
    /\ storage \in CorruptStorage \cup {StoredAbsent}
    /\ now = T0
    /\ active = FALSE
    /\ lifecycle = 0
    /\ fetches = <<>>
    /\ exportStatus = NoExportStatus
    /\ downloads = <<>>

SpecCorrupt == InitCorrupt /\ [][Next]_vars

(***************************************************************************)
(* The directory on a loaded roster: the page has fetched a roster of up   *)
(* to MaxRoster records (twins, absent and empty fields included) and the  *)
(* user filters and deletes.                                               *)
(***************************************************************************)
ViewPool == {Ann, Bob, Zed, Eve}

ViewRosters == UNION {[1..n -> ViewPool] : n \in 0..MaxRoster}

All == <<"a", "l", "l">>

ViewQueries == {<<>>, <<" ">>, <<" ", "A", "N">>}
ViewCities == {<<>>, <<" ">>, <<"N", "y", " ">>, All}
ViewCompanies == {<<>>, <<"z">>, All}

InitView ==
    \E data \in ViewRosters :
        /\ users = Deserialize(data)
        /\ query = <<>>
        /\ deferredQuery = <<>>
        /\ selectedCity = <<>>
        /\ selectedCompany = <<>>
        /\ loading = FALSE
        /\ error = Null
        /\ isUsingCachedData = FALSE
        /\ storage = writeCachedUsers(Deserialize(data), T0)
        /\ now = T0
        /\ active = TRUE
        /\ lifecycle = 1
        /\ fetches = <<[NewFetch(1, TRUE, FALSE) EXCEPT
                            !.stage = "done", !.outcome = "ok", !.received = data]>>
        /\ exportStatus = NoExportStatus
        /\ downloads = <<>>

\* the state after the first fetchUsers call succeeded with `data`
LoadedWith(data) ==
    /\ users = Deserialize(data)
    /\ query = <<>>
    /\ deferredQuery = <<>>
    /\ selectedCity = <<>>
    /\ selectedCompany = <<>>
    /\ loading = FALSE
    /\ error = Null
    /\ isUsingCachedData = FALSE
    /\ storage = writeCachedUsers(Deserialize(data), T0)
    /\ now = T0
    /\ active = TRUE
    /\ lifecycle = 1
    /\ fetches = <<[NewFetch(1, TRUE, FALSE) EXCEPT
                        !.stage = "done", !.outcome = "ok", !.received = data]>>
    /\ exportStatus = NoExportStatus
    /\ downloads = <<>>

ViewSetQuery ==
    /\ ~filtersDisabled
    /\ \E q \in ViewQueries : q # query /\ query' = q
    /\ UNCHANGED <<users, deferredQuery, selectedCity, selectedCompany, loading, error,
                   isUsingCachedData, storage, now, active, lifecycle, fetches,
                   exportStatus, downloads>>

ViewSetSelectedCity ==
    /\ ~filtersDisabled
    /\ \E c \in ViewCities : c # selectedCity /\ selectedCity' = c
    /\ UNCHANGED <<users, query, deferredQuery, selectedCompany, loading, error,
                   isUsingCachedData, storage, now, active, lifecycle, fetches,
                   exportStatus, downloads>>

ViewSetSelectedCompany ==
    /\ ~filtersDisabled
    /\ \E c \in ViewCompanies : c # selectedCompany /\ selectedCompany' = c
    /\ UNCHANGED <<users, query, deferredQuery, selectedCity, loading, error,
                   isUsingCachedData, storage, now, active, lifecycle, fetches,
                   exportStatus, downloads>>

NextView ==
    \/ ViewSetQuery
    \/ SettleQuery
    \/ ViewSetSelectedCity
    \/ ViewSetSelectedCompany
    \/ ResetFilters
    \/ Delete

SpecView == InitView /\ [][NextView]_vars

(***************************************************************************)
(* Properties.                                                             *)
(***************************************************************************)
\* In this step the i-th fetchUsers call settles with one of `outcomes`.
SettlesWith(i, outcomes) ==
    /\ fetches[i].stage # "done"
    /\ fetches'[i].stage = "done"
    /\ fetches'[i].outcome \in outcomes

\* outcomes the code handles as a failure of the response or of the transport
ResponseFailures == {"network", "status", "parse", "invalid"}

\* C1: when a torn-down lifecycle's aborted fetch settles with the AbortError,
\* that step changes nothing: roster, cache entry, error, loading flag,
\* using-cached flag and filter selections all keep their values.
C1_AbortSettlesSilently ==
    [][\A i \in 1..Len(fetches) :
          (fetches[i].aborted /\ SettlesWith(i, {"abort"}))
          => UNCHANGED <<users, storage, error, loading, isUsingCachedData, query,
                         deferredQuery, selectedCity, selectedCompany,
                         exportStatus, downloads>>]_vars

\* C2: when a cancelled fetch is nevertheless answered with a successful,
\* well-formed response, that step neither replaces the live roster nor writes
\* the cache entry.
C2_LateResponseIgnored ==
    [][\A i \in 1..Len(fetches) :
          (fetches[i].aborted /\ SettlesWith(i, {"ok"}))
          => (users' = users /\ storage' = storage)]_vars

\* C3: while the blocking fetch of an activation that found no cache entry is
\* unresolved (and its lifecycle not torn down), the loading indicator is on
\* and the filters are disabled.
C3_BlockingFetchKeepsLoading ==
    \A i \in 1..Len(fetches) :
        (fetches[i].showLoading /\ ~fetches[i].aborted /\ fetches[i].stage # "done")
        => (loading /\ filtersDisabled)

\* The cache slot holds a well-formed entry (what the activation will read).
WellFormedEntry == storage.kind = "object" /\ storage.dataIsArray /\ storage.tsIsNumber

\* This step is a run of the activation effect.
ActivationStep == lifecycle' = lifecycle + 1

\* The i-th call is a background refresh that is still in flight in its lifecycle.
BackgroundInFlight(i) ==
    ~fetches[i].showLoading /\ ~fetches[i].aborted /\ fetches[i].stage # "done"

\* C4: an activation that finds a cache entry older than the TTL publishes the
\* cached roster at once and starts exactly one fetch, a background one; while
\* that fetch is in flight the loading indicator is off and the filters are
\* usable; no lifecycle ever has more than one fetch.
C4_StaleCacheBackgroundRefresh ==
    [][/\ (ActivationStep /\ WellFormedEntry /\ now - storage.timestamp > CACHE_TTL_MS)
           => /\ users' = Deserialize(storage.data)
              /\ Len(fetches') = Len(fetches) + 1
              /\ fetches'[Len(fetches')].lc = lifecycle'
              /\ ~fetches'[Len(fetches')].showLoading
       /\ \A i \in 1..Len(fetches') : BackgroundInFlight(i)' => (~loading' /\ ~filtersDisabled')
       /\ \A i, j \in 1..Len(fetches') : fetches'[i].lc = fetches'[j].lc => i = j]_vars

\* C4 witness: a background refresh is pending while the cached roster is shown.
C4_Witness ==
    \E i \in 1..Len(fetches) :
        /\ BackgroundInFlight(i)
        /\ fetches[i].lc = lifecycle
        /\ users = Deserialize(storage.data)
        /\ users # <<>>
        /\ now - storage.timestamp > CACHE_TTL_MS

\* C5: an activation that finds a well-formed cache entry of age at most the
\* TTL publishes the cached roster, sets the using-cached flag, turns the
\* loading indicator off and issues no request; requests are only ever issued
\* by an activation step.
C5_FreshCacheNoRequest ==
    [][/\ (ActivationStep /\ WellFormedEntry /\ now - storage.timestamp <= CACHE_TTL_MS)
           => /\ users' = Deserialize(storage.data)
              /\ isUsingCachedData'
              /\ ~loading'
              /\ fetches' = fetches
       /\ Len(fetches') # Len(fetches) => ActivationStep]_vars

\* C5 witness: the first activation found an entry exactly TTL old and is showing it.
C5_Witness ==
    /\ active
    /\ lifecycle = 1
    /\ fetches = <<>>
    /\ WellFormedEntry
    /\ now - storage.timestamp = CACHE_TTL_MS
    /\ users = Deserialize(storage.data)
    /\ users # <<>>
    /\ isUsingCachedData
    /\ ~loading

\* C6: when a non-cancelled fetch gets a success status and a payload whose
\* data is an array, then after that step the live roster is the payload's
\* data, the cache entry is {data, timestamp: now}, the using-cached flag is
\* false and no error is set.
C6_SuccessApplied ==
    [][\A i \in 1..Len(fetches) :
          (~fetches[i].aborted /\ SettlesWith(i, {"ok", "quota"}))
          => /\ users' = Deserialize(fetches'[i].received)
             /\ storage' = StoredEntry(now, fetches'[i].received)
             /\ ~isUsingCachedData'
             /\ error' = Null]_vars

\* C7: a response with a non-success status, or a payload that is null or whose
\* data is no array, is a failure: the step leaves the cache entry as it is,
\* sets an error message, and the live roster is kept or cleared, never replaced.
C7_InvalidResponseIsFailure ==
    [][\A i \in 1..Len(fetches) :
          SettlesWith(i, {"status", "invalid"})
          => /\ storage' = storage
             /\ error' # Null
             /\ users' \in {users, <<>>}]_vars

\* C7 witness: a fetch was refused for its payload and the error is set.
C7_Witness ==
    \E i \in 1..Len(fetches) :
        /\ fetches[i].stage = "done"
        /\ fetches[i].outcome = "invalid"
        /\ error = MSG_INVALID
        /\ WellFormedEntry
        /\ users # <<>>

\* C8: when a fetch fails and the cache holds no cached data (no entry, or an
\* entry with an empty roster), the step leaves an empty roster, an empty query,
\* empty city and company selectors, an error message, and the indicator off.
C8_FailureWithoutCachedData ==
    [][\A i \in 1..Len(fetches) :
          (SettlesWith(i, ResponseFailures \cup {"quota"})
             /\ ~(WellFormedEntry /\ Len(storage.data) > 0))
          => /\ users' = <<>>
             /\ query' = <<>>
             /\ selectedCity' = <<>>
             /\ selectedCompany' = <<>>
             /\ error' # Null
             /\ ~loading']_vars

\* C8 witness: a failure without cached data has just cleared a query the
\* settled query still shows.
C8_Witness ==
    \E i \in 1..Len(fetches) :
        /\ fetches[i].stage = "done"
        /\ fetches[i].outcome \in ResponseFailures
        /\ ~fetches[i].hasCachedData
        /\ users = <<>>
        /\ error # Null
        /\ ~loading
        /\ query = <<>>
        /\ deferredQuery # <<>>

\* C9 as claimed: when a cache entry (with any roster, also an empty one) was
\* present at activation and the background fetch fails, the step leaves the
\* roster and the query/city/company selections unchanged, the table is
\* displayed and the error notice is shown.
C9_CachedFailureKeepsAll ==
    [][\A i \in 1..Len(fetches) :
          (SettlesWith(i, ResponseFailures) /\ WellFormedEntry)
          => /\ users' = users
             /\ query' = query
             /\ selectedCity' = selectedCity
             /\ selectedCompany' = selectedCompany
             /\ tableShown'
             /\ errorShown']_vars

\* C9 amended: the same, for a cache entry that holds a non-empty roster.
C9_NonEmptyCachedFailureKeepsAll ==
    [][\A i \in 1..Len(fetches) :
          (SettlesWith(i, ResponseFailures) /\ WellFormedEntry /\ Len(storage.data) > 0)
          => /\ users' = users
             /\ query' = query
             /\ selectedCity' = selectedCity
             /\ selectedCompany' = selectedCompany
             /\ tableShown'
             /\ errorShown']_vars

\* C9 witness: a background refresh over a non-empty cached roster has failed;
\* roster and query are still there, table and notice are shown.
C9_Witness ==
    \E i \in 1..Len(fetches) :
        /\ fetches[i].stage = "done"
        /\ fetches[i].outcome \in ResponseFailures
        /\ fetches[i].hasCachedData
        /\ fetches[i].lc = lifecycle
        /\ users = Deserialize(storage.data)
        /\ users # <<>>
        /\ query # <<>>
        /\ selectedCity # <<>>
        /\ tableShown
        /\ errorShown

\* The failure class of an outcome: network unreachable, non-success status,
\* malformed payload (a body that cannot be parsed, or of the wrong shape).
FailureClass(outcome) ==
    CASE outcome = "network" -> "unreachable"
      [] outcome = "status" -> "status"
      [] outcome \in {"invalid", "parse"} -> "malformed"

\* C10: the message of a failure is decided by its class alone, and the three
\* classes have three different messages: any two failures have the same
\* message exactly when they are of the same class.
C10_MessagePerClass ==
    \A i, j \in 1..Len(fetches) :
        (/\ fetches[i].stage = "done" /\ fetches[i].outcome \in ResponseFailures
         /\ fetches[j].stage = "done" /\ fetches[j].outcome \in ResponseFailures)
        => ((FailureClass(fetches[i].outcome) = FailureClass(fetches[j].outcome))
               <=> (fetches[i].shown = fetches[j].shown))

\* C11: while the cache slot holds a malformed value (unparsable, no object,
\* data that is no array, timestamp that is no number), the cache read returns
\* absent; an activation does what it does on an empty slot, step for step: it
\* publishes nothing, leaves the using-cached flag alone, and issues one blocking
\* fetch with the loading indicator on; and no record of the stored value is
\* ever in the live roster.
MalformedHandledAsAbsent ==
    storage \in CorruptStorage =>
        /\ readCachedUsers(storage) = NoCache
        /\ readCachedUsers(storage) = readCachedUsers(StoredAbsent)
        /\ ActivationStep =>
              LET none == readCachedUsers(StoredAbsent)
                  calls == fetchCalls(none, now, lifecycle + 1)
              IN  /\ users' = users
                  /\ isUsingCachedData' = isUsingCachedData
                  /\ storage' = storage
                  /\ error' = Null
                  /\ loading' = loadingOnActivate(none, calls, loading)
                  /\ loading'
                  /\ fetches' = fetches \o calls
                  /\ fetches' = Append(fetches, NewFetch(lifecycle + 1, TRUE, FALSE))
        /\ \A k \in 1..Len(users') : \A j \in 1..Len(storage.data) :
              Serialize(users')[k] # storage.data[j]

C11_MalformedCacheIsNoCache == [][MalformedHandledAsAbsent]_vars

\* An activation has run on a slot holding an object with an array of records
\* but no numeric timestamp, its blocking fetch is in flight, and the slot still
\* holds that value.
C11_Witness ==
    /\ storage = Stored("object", TRUE, FALSE, 0, <<Zed>>)
    /\ active
    /\ loading
    /\ users = <<>>
    /\ Len(fetches) = 1
    /\ fetches[1].showLoading
    /\ fetches[1].stage = "json"

\* C12: the cache entry changes only in the step in which a fetch settles with
\* success, and then it is the whole entry written from that payload at that
\* time; a local delete, a change of query or selectors, a filter reset, an
\* export, a failed or aborted fetch, an activation and a teardown leave it as
\* it is.
CacheWrittenOnlyBySuccess ==
    /\ storage' # storage =>
          \E i \in 1..Len(fetches) :
              /\ SettlesWith(i, {"ok"})
              /\ storage' = StoredEntry(now, fetches'[i].received)
              /\ storage' = writeCachedUsers(users', now)
    /\ fetches' = fetches => storage' = storage
    /\ (exportStatus' # exportStatus \/ downloads' # downloads) => storage' = storage
    /\ active' # active => storage' = storage
    /\ \A i \in 1..Len(fetches) :
          SettlesWith(i, ResponseFailures \cup {"quota", "abort"}) => storage' = storage

C12_CacheChangesOnlyOnSuccess == [][CacheWrittenOnlyBySuccess]_vars

\* A fetch has succeeded and written the two-record payload to the cache, one of
\* the two records has since been deleted locally, an export has run, and the
\* cache entry still holds both records.
C12_Witness ==
    /\ storage.kind = "object"
    /\ storage.data = <<Ann, Bob>>
    /\ Len(users) = 1
    /\ exportStatus # NoExportStatus
    /\ \E i \in 1..Len(fetches) : fetches[i].outcome = "ok"

\* The state of the fetch orchestrator, read off the current effect run: Idle
\* while no effect is mounted; Loading / Refreshing while the run's blocking /
\* background fetch is in flight; DisplayingCached when the run issued no fetch;
\* DisplayingFresh, ErrorWithData or ErrorNoData once its fetch has settled.
currentFetches == {i \in 1..Len(fetches) : fetches[i].lc = lifecycle}

Phase ==
    IF ~active THEN "Idle"
    ELSE IF currentFetches = {} THEN "DisplayingCached"
    ELSE LET f == fetches[CHOOSE i \in currentFetches : TRUE]
         IN  IF f.stage # "done"
             THEN (IF f.showLoading THEN "Loading" ELSE "Refreshing")
             ELSE IF f.outcome = "ok" THEN "DisplayingFresh"
             ELSE IF f.hasCachedData THEN "ErrorWithData"
             ELSE "ErrorNoData"

InFlightPhases == {"Loading", "Refreshing"}

\* C13 as stated: a mounted activation with no fetch in flight is in
\* Displaying(fresh), Error(withData) or Error(noData), and in no other state.
C13_TerminalStates ==
    (active /\ Phase \notin InFlightPhases) =>
        Phase \in {"DisplayingFresh", "ErrorWithData", "ErrorNoData"}

PhaseTransitions ==
    {<<"Idle", "DisplayingCached">>, <<"Idle", "Refreshing">>, <<"Idle", "Loading">>,
     <<"Loading", "DisplayingFresh">>, <<"Loading", "ErrorNoData">>,
     <<"Refreshing", "DisplayingFresh">>, <<"Refreshing", "ErrorWithData">>,
     <<"Refreshing", "ErrorNoData">>}

TerminalPhases == {"DisplayingCached", "DisplayingFresh", "ErrorWithData", "ErrorNoData"}

OrchestratorStep ==
    \* what is on screen in a state the activation ends in
    /\ Phase \in TerminalPhases =>
          /\ ~loading
          /\ Phase = "DisplayingCached" => error = Null /\ isUsingCachedData
          /\ Phase = "DisplayingFresh" => error = Null /\ ~isUsingCachedData
          /\ Phase = "ErrorWithData" => error # Null /\ isUsingCachedData /\ tableShown
          /\ Phase = "ErrorNoData" => error # Null /\ users = <<>>
    \* it stays there until the teardown
    /\ (Phase \in TerminalPhases /\ active') =>
          /\ Phase' = Phase
          /\ loading' = loading
          /\ error' = error
          /\ isUsingCachedData' = isUsingCachedData
    \* the states are entered along the state machine's edges only
    /\ Phase' # Phase => (Phase' = "Idle" \/ <<Phase, Phase'>> \in PhaseTransitions)
    /\ (Phase = "Idle" /\ Phase' = "Loading") => ~readCachedUsers(storage).present
    /\ (Phase = "Idle" /\ Phase' \in {"DisplayingCached", "Refreshing"}) =>
          /\ readCachedUsers(storage).present
          /\ users' = Deserialize(readCachedUsers(storage).data)
          /\ isUsingCachedData'
          /\ Phase' = "Refreshing" <=> isStale(readCachedUsers(storage), now)

\* C13 (amended): a mounted activation with no fetch in flight is in
\* Displaying(fresh), Error(withData), Error(noData) or, when it found a fresh
\* cache entry and issued no fetch, Displaying(cached); the loading indicator is
\* then off and the error is set exactly in the Error states; the state and
\* these flags do not change until the teardown; and states are entered only
\* along Idle -> Displaying(cached) [-> Refreshing -> ...] or Idle -> Loading -> ....
C13_TerminalOrCachedStates == [][OrchestratorStep]_vars

\* The second activation found the entry the first one's fetch had just written,
\* issued no fetch and rests in Displaying(cached).
C13_Witness ==
    /\ active
    /\ lifecycle = 2
    /\ Phase = "DisplayingCached"
    /\ Len(fetches) = 1
    /\ fetches[1].outcome = "ok"
    /\ Len(users) = 2

\* `list` without its k-th element
RemoveAt(list, k) == SubSeq(list, 1, k - 1) \o SubSeq(list, k + 1, Len(list))

DeleteRemovesThatRecord ==
    /\ \A k \in 1..Len(users) : handleDelete(users, users[k]) = RemoveAt(users, k)
    /\ users' # users =>
          \E k \in 1..Len(users) :
              /\ \E j \in 1..Len(filteredUsers) : filteredUsers[j] = users[k]
              /\ users' = RemoveAt(users, k)
              /\ Len(users') = Len(users) - 1

\* C14: deleting a record of the live roster removes exactly one element, the
\* object that was passed, and keeps the others in their order, also when the
\* roster holds another object with the same values in every field.
C14_DeleteByIdentity == [][DeleteRemovesThatRecord]_vars

\* The service answered Ann, Ann, Bob; the first of the twins has been deleted
\* and the second is still in the roster.
C14_Witness ==
    /\ fetches[1].received = <<Ann, Ann, Bob>>
    /\ Len(users) = 2
    /\ users[1].ref = 2
    /\ Serialize(users) = <<Ann, Bob>>

\* a is b with some elements left out
RECURSIVE IsSubsequence(_, _)
IsSubsequence(a, b) ==
    IF a = <<>> THEN TRUE
    ELSE IF b = <<>> THEN FALSE
    ELSE IF Head(a) = Head(b) THEN IsSubsequence(Tail(a), Tail(b))
    ELSE IsSubsequence(a, Tail(b))

\* C15: in every state the filter pipeline's output is a subsequence of the
\* live roster: only objects of the roster (no object twice, the roster holding
\* each object once), in the roster's order.
C15_OutputIsSubsequence ==
    /\ IsSubsequence(filteredUsers, users)
    /\ \A a, b \in 1..Len(filteredUsers) : a # b => filteredUsers[a].ref # filteredUsers[b].ref
    /\ Len(filteredUsers) <= Len(users)

\* The name query is settled and keeps the first and the third of three records.
C15_Witness ==
    /\ Len(users) = 3
    /\ ToLowerCase(Trim(deferredQuery)) = <<"a", "n">>
    /\ filteredUsers = <<users[1], users[3]>>

\* C16: for every roster, when the settled query is empty after trimming and the
\* city and the company selector are empty, the filter pipeline's output is the
\* roster itself.
C16_InactiveFiltersIdentity ==
    (Trim(deferredQuery) = <<>> /\ selectedCity = <<>> /\ selectedCompany = <<>>) =>
        filteredUsers = users

\* A blank settled query (one space) on a roster of three, while the committed
\* query is already a name fragment.
C16_Witness ==
    /\ deferredQuery = <<" ">>
    /\ query = <<" ", "A", "N">>
    /\ selectedCity = <<>>
    /\ selectedCompany = <<>>
    /\ Len(users) = 3
    /\ filteredUsers = users

\* the record is in the filter pipeline's output
InOutput(user) == \E j \in 1..Len(filteredUsers) : filteredUsers[j] = user

\* the field equals the selector, ignoring case; an absent field equals nothing
EqualsIgnoringCase(field, selector) ==
    field # Undefined /\ ToLowerCase(field) = ToLowerCase(selector)

\* C17 as stated: a record of the roster is in the output if and only if its
\* lowercased name contains the trimmed, lowercased settled query, its city
\* equals the city selector ignoring case, and its company equals the company
\* selector ignoring case, a blank selector being no constraint and an absent
\* field failing an active predicate.
C17_OutputIffPredicates ==
    \A k \in 1..Len(users) :
        InOutput(users[k]) <=>
            /\ Includes(ToLowerCase(users[k].name), ToLowerCase(Trim(deferredQuery)))
            /\ Trim(selectedCity) = <<>> \/ EqualsIgnoringCase(users[k].city, selectedCity)
            /\ \/ Trim(selectedCompany) = <<>>
               \/ EqualsIgnoringCase(users[k].company, selectedCompany)

\* C18: with the city selector "all" or empty the output is what it is with no
\* city constraint, and with the company selector "all" or empty it is what it
\* is with no company constraint.
C18_AllOrEmptyInactive ==
    /\ selectedCity \in {<<>>, All} =>
          filteredUsers = filterUsers(users, searchIndex, deferredQuery, <<>>, selectedCompany)
    /\ selectedCompany \in {<<>>, All} =>
          filteredUsers = filterUsers(users, searchIndex, deferredQuery, selectedCity, <<>>)

Occurrences(keys, key) == Cardinality({i \in 1..Len(keys) : keys[i] = key})

RECURSIVE SumOfCounts(_)
SumOfCounts(entries) ==
    IF entries = <<>> THEN 0 ELSE Head(entries)[2] + SumOfCounts(Tail(entries))

\* `entries` has one entry per key in `counted`, with the number of its
\* occurrences in `keys`, and nothing else
CountsExactly(entries, keys, counted) ==
    /\ \A a, b \in 1..Len(entries) : a # b => entries[a][1] # entries[b][1]
    /\ {entries[k][1] : k \in 1..Len(entries)} = counted
    /\ \A k \in 1..Len(entries) :
          /\ entries[k][2] = Occurrences(keys, entries[k][1])
          /\ entries[k][2] >= 1
    /\ SumOfCounts(entries) <= Len(keys)

\* the distinct keys of `keys` that are present / present and not ""
PresentKeys(keys) == {keys[i] : i \in 1..Len(keys)} \ {Undefined}
NonEmptyKeys(keys) == {keys[i] : i \in 1..Len(keys)} \ {Undefined, <<>>}

CountsPresent(entries, keys) == CountsExactly(entries, keys, PresentKeys(keys))
CountsNonEmpty(entries, keys) == CountsExactly(entries, keys, NonEmptyKeys(keys))

\* C19 as stated: buildCounts returns exactly one entry per distinct present key,
\* with the number of records having that key (at least 1), no entry for an
\* absent key, and counts that sum to at most the length of the input.
C19_OneEntryPerPresentKey ==
    /\ CountsPresent(cityCounts, keysOf(users, cityKey))
    /\ CountsPresent(companyCounts, keysOf(users, companyKey))
    /\ CountsPresent(filteredCityCounts, keysOf(filteredUsers, cityKey))
    /\ CountsPresent(filteredCompanyCounts, keysOf(filteredUsers, companyKey))

\* C19 (amended): buildCounts returns exactly one entry per distinct key that is
\* present and not the empty string, with the number of records having that key
\* (at least 1), no entry for an absent or empty key, and counts that sum to at
\* most the length of the input.
C19_OneEntryPerNonEmptyKey ==
    /\ CountsNonEmpty(cityCounts, keysOf(users, cityKey))
    /\ CountsNonEmpty(companyCounts, keysOf(users, companyKey))
    /\ CountsNonEmpty(filteredCityCounts, keysOf(filteredUsers, cityKey))
    /\ CountsNonEmpty(filteredCompanyCounts, keysOf(filteredUsers, companyKey))

\* Three records are shown under a blank settled query: two without a city and
\* with the same company, one with a city and the empty string as company; one
\* city is counted once and one company twice.
C19_Witness ==
    /\ deferredQuery = <<" ">>
    /\ Len(filteredUsers) = 3
    /\ \E k \in 1..3 : users[k].city = Undefined
    /\ \E k \in 1..3 : users[k].company = <<>>
    /\ Len(filteredCityCounts) = 1
    /\ filteredCompanyCounts = << <<(<<"Z">>), 2>> >>

\* position at which `key` is first seen in `keys`
FirstSeen(keys, key) ==
    CHOOSE i \in 1..Len(keys) : keys[i] = key /\ \A j \in 1..(i - 1) : keys[j] # key

OrderedByCount(entries, keys) ==
    \A a, b \in 1..Len(entries) :
        a < b =>
            /\ entries[a][2] >= entries[b][2]
            /\ entries[a][2] = entries[b][2] =>
                  FirstSeen(keys, entries[a][1]) < FirstSeen(keys, entries[b][1])

\* C20: the entries buildCounts returns are ordered by count, non-increasing,
\* and two keys of equal count are in the order in which they were first seen
\* in the input.
C20_SortedByCountStable ==
    /\ OrderedByCount(cityCounts, keysOf(users, cityKey))
    /\ OrderedByCount(companyCounts, keysOf(users, companyKey))
    /\ OrderedByCount(filteredCityCounts, keysOf(filteredUsers, cityKey))
    /\ OrderedByCount(filteredCompanyCounts, keysOf(filteredUsers, companyKey))

\* Under a city selector that matches all three records, the city seen first
\* has one record and the city seen second has two, so the sort has moved the
\* second before the first.
C20_Witness ==
    /\ selectedCity = <<"N", "y", " ">>
    /\ Len(filteredUsers) = 3
    /\ filteredUsers[1].city = <<"n", "y">>
    /\ filteredCityCounts = << <<(<<"N", "Y">>), 2>>, <<(<<"n", "y">>), 1>> >>

\* C21: in every state, whatever the query, the settled query and the two
\* selectors are, uniqueCities and uniqueCompanies are the numbers of distinct
\* counted cities and companies of the whole roster: they are functions of the
\* roster alone.
C21_UniqueCountsIgnoreFilters ==
    /\ uniqueCities = Cardinality(NonEmptyKeys(keysOf(users, cityKey)))
    /\ uniqueCompanies = Cardinality(NonEmptyKeys(keysOf(users, companyKey)))

\* The city selector "all" leaves no record in the output, and the roster still
\* counts two cities and at least one company.
C21_Witness ==
    /\ selectedCity = All
    /\ filteredTotal = 0
    /\ Len(filteredCityCounts) = 0
    /\ uniqueCities = 2
    /\ uniqueCompanies >= 1

\* C22 as stated: coverage is 0 when the roster is empty, and 100 whenever the
\* output has as many records as the roster.
C22_CoverageZeroOrFull ==
    /\ totalUsers = 0 => coverage = 0
    /\ filteredTotal = totalUsers => coverage = 100

\* C22 (amended): coverage is 0 when the roster is empty, and 100 whenever the
\* roster is not empty and the output has as many records as the roster.
C22_CoverageZeroOrFullNonEmpty ==
    /\ totalUsers = 0 => coverage = 0
    /\ (totalUsers > 0 /\ filteredTotal = totalUsers) => coverage = 100

\* Every record has been deleted from a roster that was loaded with records:
\* output and roster have the same length, 0, and coverage is 0.
C22_Witness ==
    /\ Len(fetches[1].received) > 0
    /\ totalUsers = 0
    /\ filteredTotal = totalUsers
    /\ coverage = 0

\* a request that has not yet resolved: issued, and its await in fetchUsers
\* not yet resumed with a response, a failure or the AbortError
InFlight(i) == i \in 1..Len(fetches) /\ fetches[i].stage # "done"

\* C26: in every state at most one request is in flight, and a request of the
\* current lifecycle is never in flight together with one of an earlier
\* lifecycle that has not yet resolved.
C26_AtMostOneInFlight ==
    /\ Cardinality({i \in 1..Len(fetches) : InFlight(i)}) <= 1
    /\ \A i, j \in 1..Len(fetches) :
          (InFlight(i) /\ InFlight(j)) => fetches[i].lc = fetches[j].lc

FailedOutcomes == ResponseFailures \cup {"quota"}

NoRetryStep ==
    /\ Len(fetches') >= Len(fetches)
    /\ Len(fetches') > Len(fetches) =>
          /\ ActivationStep
          /\ Len(fetches') = Len(fetches) + 1
          /\ fetches'[Len(fetches')].lc = lifecycle'
    /\ \A i, j \in 1..Len(fetches') :
          fetches'[i].lc = fetches'[j].lc => i = j

\* C27: a request is issued only by an activation step, one at most, and it
\* belongs to the lifecycle that step starts; no lifecycle ever has two
\* requests, so a failure is followed by no request of the same activation.
C27_NoRetry == [][NoRetryStep]_vars

\* The only request of the mounted activation has failed, time has passed
\* since the activation, and no other request of that activation exists.
C27_Witness ==
    /\ active
    /\ lifecycle = 1
    /\ Len(fetches) = 1
    /\ fetches[1].stage = "done"
    /\ fetches[1].outcome \in FailedOutcomes
    /\ now > T0

LoadingTurnedOnOnlyByActivation == (~loading /\ loading') => ActivationStep

\* C28: on a transport that resolves every request, a loading indicator that
\* is on after an activation is eventually off; it is turned on by no step
\* other than an activation; and it is off in every state an activation ends in.
C28_LoadingEventuallyOff ==
    /\ (lifecycle > 0 /\ loading) ~> ~loading
    /\ [][LoadingTurnedOnOnlyByActivation]_vars
    /\ [](Phase \in TerminalPhases => ~loading)

\* The mounted activation's blocking request has settled with a response or
\* a failure, and the loading indicator is off.
C28_Witness ==
    /\ active
    /\ Len(fetches) = 1
    /\ fetches[1].showLoading
    /\ fetches[1].stage = "done"
    /\ fetches[1].outcome \in FailedOutcomes \cup {"ok"}
    /\ ~loading

(***************************************************************************)
(* The loaded page while the user types: useDeferredValue renders with the *)
(* old value first and schedules the render with the new one, which is     *)
(* carried out unless a newer keystroke replaces it.                       *)
(***************************************************************************)
NextTyping == ViewSetQuery \/ SettleQuery \/ ResetFilters \/ Delete

SpecTyping == InitView /\ [][NextTyping]_vars /\ WF_vars(SettleQuery)

KeystrokeStep ==
    \* a change of the committed query does not wait for the settled one
    /\ query' # query => deferredQuery' = deferredQuery
    \* the settled query changes only to the committed query
    /\ deferredQuery' # deferredQuery => deferredQuery' = query /\ query' = query

\* C25: the search input accepts a keystroke whether or not the settled query
\* lags, and the keystroke changes the committed query in that step; the output
\* is the filter applied with the settled query; the settled query changes only
\* by taking the value of the committed query; and either the committed query
\* changes again and again or from some point on the settled query equals it.
C25_SettledQueryCatchesUp ==
    /\ [](~filtersDisabled => ENABLED ViewSetQuery)
    /\ [][KeystrokeStep]_vars
    /\ [](filteredUsers
            = filterUsers(users, searchIndex, deferredQuery, selectedCity, selectedCompany))
    /\ ([]<><<query' # query>>_vars \/ <>[](deferredQuery = query))

\* Two keystrokes after the settled query last caught up: the settled query is
\* an earlier committed one, and the output is not what the committed query
\* would give.
C25_Witness ==
    /\ query = <<" ", "A", "N">>
    /\ deferredQuery = <<" ">>
    /\ Len(users) = 2
    /\ filteredUsers = users
    /\ filterUsers(users, searchIndex, query, selectedCity, selectedCompany) # filteredUsers

(***************************************************************************)
(* The loaded page with rosters long enough to fill the list's window.     *)
(***************************************************************************)
ListRosters ==
    {[i \in 1..n |-> IF i % 2 = 1 THEN Ann ELSE Bob] : n \in 0..MaxRows}

InitList == \E data \in ListRosters : LoadedWith(data)

NextList == ViewSetQuery \/ SettleQuery \/ Delete

SpecList == InitList /\ [][NextList]_vars

\* C30: whenever the table is shown, the list's window height is
\* min(count * 56, 360) for the count of displayed records; with a count of 0
\* no list is rendered and the empty-state message is shown, and with any
\* other count the list is rendered and the message is not.
C30_ListHeight ==
    tableShown =>
        /\ listHeight = Min(Len(filteredUsers) * 56, 360)
        /\ Len(filteredUsers) = 0 => ~listRendered /\ emptyStateShown
        /\ Len(filteredUsers) > 0 => listRendered /\ ~emptyStateShown

\* Seven of eight loaded records are displayed after a deletion: 7 * 56
\* exceeds the cap and the window is 360 high.
C30_Witness ==
    /\ Len(fetches[1].received) = 8
    /\ Len(filteredUsers) = 7
    /\ listRendered
    /\ listHeight = 360

PositionKey(index) == <<"r", "o", "w", "-">> \o NumberToString(index)

\* the key of the displayed record whose object is `ref`
RowKeyOf(ref) ==
    rowKeys[CHOOSE i \in 1..Len(filteredUsers) : filteredUsers[i].ref = ref]

DisplayedRefs == {filteredUsers[i].ref : i \in 1..Len(filteredUsers)}

KeysStableStep ==
    \A ref \in DisplayedRefs \cap DisplayedRefs' : RowKeyOf(ref)' = RowKeyOf(ref)

\* C24: in every state the row keys of the displayed sequence are pairwise
\* distinct, and the key of a record is its id when it has one and the key of
\* its position otherwise; a record displayed before and after a step has the
\* same key before and after.
C24_RowKeysDistinctAndStable ==
    /\ [](\A i, j \in 1..Len(rowKeys) : i # j => rowKeys[i] # rowKeys[j])
    /\ [](\A i \in 1..Len(rowKeys) :
             rowKeys[i] = IF filteredUsers[i].id # Undefined
                          THEN filteredUsers[i].id
                          ELSE PositionKey(i - 1))
    /\ [][KeysStableStep]_vars

(***************************************************************************)
(* The loaded page with the export buttons, the company selector and the   *)
(* delete buttons in use.  The sample records have an absent city, an      *)
(* absent company, an empty company, and a quote, a comma and a line break *)
(* inside a value.                                                         *)
(***************************************************************************)
ExportSample == <<Eve, Zed, Uma, Bob, Ann>>

ExportRosters == {SubSeq(ExportSample, 1, n) : n \in 0..MaxRoster}

InitExportView == \E data \in ExportRosters : LoadedWith(data)

NextExportView == DownloadReport \/ ExportRoster \/ ViewSetSelectedCompany \/ Delete

SpecExportView == InitExportView /\ [][NextExportView]_vars

\* A reader of the exported text (RFC 4180): values are quoted, a doubled
\* quote inside a value is one quote, a comma ends a value and a line break
\* ends a row, both only outside quotes.  A position is outside quotes when
\* an even number of quote characters precedes it.
QuotesBefore(text, k) == Cardinality({j \in 1..(k - 1) : text[j] = "\""})

OutsideQuotes(text, k) == QuotesBefore(text, k) % 2 = 0

Breaks(text, sep) == {k \in 1..Len(text) : text[k] = sep /\ OutsideQuotes(text, k)}

\* the members of a set of positions, in increasing order
Ordered(S) ==
    [i \in 1..Cardinality(S) |-> CHOOSE k \in S : Cardinality({j \in S : j < k}) = i - 1]

\* the pieces of `text` between the positions of S
SplitAt(text, S) ==
    LET b == Ordered(S)
        n == Len(b)
    IN  [i \in 1..(n + 1) |->
            SubSeq(text, IF i = 1 THEN 1 ELSE b[i - 1] + 1,
                         IF i = n + 1 THEN Len(text) ELSE b[i] - 1)]

\* the value of a quoted cell: the enclosing quotes go, and of a doubled quote
\* the second one stays
Unquote(raw) ==
    LET kept == {k \in 1..Len(raw) :
                    \/ raw[k] # "\""
                    \/ k > 1 /\ raw[k - 1] = "\"" /\ OutsideQuotes(raw, k)}
        o == Ordered(kept)
    IN  [i \in 1..Len(o) |-> raw[o[i]]]

ParseCsv(text) ==
    LET lines == SplitAt(text, Breaks(text, "\n"))
    IN  [r \in 1..Len(lines) |->
            LET cells == SplitAt(lines[r], Breaks(lines[r], ","))
            IN  [c \in 1..Len(cells) |-> Unquote(cells[c])]]

\* the sequence a step's export was called with, told by the label it reports
ExportedEntries == IF exportStatus'.label = "full roster" THEN users ELSE filteredUsers

ExportCountsStep ==
    \* a step that sets the nothing-to-export status hands over no file
    /\ (exportStatus' # exportStatus /\ exportStatus' = NothingToExport) =>
          /\ downloads' = downloads
          /\ Len(users) = 0 \/ Len(filteredUsers) = 0
    \* a step that hands over a file exported N >= 1 records into N + 1 rows
    /\ downloads' # downloads =>
          /\ Len(ExportedEntries) >= 1
          /\ downloads' = Append(downloads, downloads'[Len(downloads')])
          /\ Len(ParseCsv(downloads'[Len(downloads')])) = Len(ExportedEntries) + 1
          /\ ParseCsv(downloads'[Len(downloads')])[1] = header
          /\ exportStatus'.count = Len(ExportedEntries)

\* C23: an export of an empty sequence hands over no file and sets the
\* nothing-to-export status; an export of N >= 1 records hands over one file
\* that reads as exactly N + 1 rows, the first being Name, Email, City, Company.
C23_ExportRowCount ==
    /\ [][ExportCountsStep]_vars
    /\ []((Len(users) = 0 \/ (~loading /\ Len(filteredUsers) = 0)) =>
             ENABLED (exportStatus' = NothingToExport /\ downloads' = downloads
                      /\ (DownloadReport \/ ExportRoster)))

\* All three loaded records were deleted and an export was asked for: the
\* status says there is nothing to export and no file exists.
C23_Witness ==
    /\ Len(fetches[1].received) = 3
    /\ Len(users) = 0
    /\ exportStatus = NothingToExport
    /\ downloads = <<>>

ExportRowsStep ==
    downloads' # downloads =>
        LET rows == ParseCsv(downloads'[Len(downloads')])
        IN  /\ Len(rows) = Len(ExportedEntries) + 1
            /\ \A i \in 1..Len(ExportedEntries) :
                  /\ rows[i + 1] =
                        << ExportedEntries[i].name,
                           ExportedEntries[i].email,
                           IF ExportedEntries[i].city = Undefined
                           THEN <<>> ELSE ExportedEntries[i].city,
                           IF ExportedEntries[i].company = Undefined
                           THEN <<>> ELSE ExportedEntries[i].company >>
                  /\ \A c \in 1..4 : rows[i + 1][c] # Placeholder

\* C29: the file an export of a non-empty sequence hands over reads, after the
\* header, as one row per input record in input order, row i + 1 being the
\* name, the email, the city or the empty string and the company or the empty
\* string of record i, and no value is the display placeholder.
C29_ExportRowsMirrorInput == [][ExportRowsStep]_vars

\* The full roster of three records was exported: the row of the record whose
\* name holds a quote, the row of the record without a city, and the row of the
\* record without a company and with a comma and a line break in its values.
C29_Witness ==
    /\ Len(downloads) = 1
    /\ exportStatus = Exported(3, "full roster")
    /\ ParseCsv(downloads[1])[2] = <<Eve.name, Eve.email, Eve.city, <<>> >>
    /\ ParseCsv(downloads[1])[3] = <<Zed.name, Zed.email, <<>>, Zed.company>>
    /\ ParseCsv(downloads[1])[4] = <<Uma.name, Uma.email, Uma.city, <<>> >>

\* C31: in every state the filtered count is at most the total count, and the
\* displayed coverage is an integer from 0 to 100.
C31_CoverageIsPercentage ==
    /\ filteredTotal <= totalUsers
    /\ coverage \in 0..100

\* A background refresh has replaced the roster, one of its two records was
\* then deleted, and the settled query lags the committed one.
C31_Witness ==
    /\ Len(fetches) = 2
    /\ ~fetches[2].showLoading
    /\ fetches[2].outcome = "ok"
    /\ Len(fetches[2].received) = 2
    /\ totalUsers = 1
    /\ deferredQuery # query
    /\ coverage \in {0, 100}

RefreshReplacesRosterStep ==
    \A i \in 1..Len(fetches) :
        (SettlesWith(i, {"ok"}) /\ ~fetches[i].showLoading) =>
            /\ users' = Deserialize(fetches'[i].received)
            /\ \A k \in 1..Len(fetches'[i].received) :
                  \E n \in 1..Len(users') :
                      Serialize(<<users'[n]>>) = <<fetches'[i].received[k]>>

\* C32: a step in which a background refresh succeeds leaves as the live
\* roster exactly the payload it received, whatever the roster was before:
\* every record of the payload is in the roster again, deleted or not.
C32_RefreshOverwritesDeletes == [][RefreshReplacesRosterStep]_vars

\* The cache entry holds two records and the live roster, shown from it, only
\* the second: the first was deleted while the background refresh of the
\* second activation is awaiting its body, and the refresh can succeed with a
\* payload that brings the deleted record back.
C32_Witness ==
    /\ lifecycle = 2
    /\ Len(fetches) = 2
    /\ InFlight(2)
    /\ ~fetches[2].showLoading
    /\ fetches[2].stage = "json"
    /\ Len(readCachedUsers(storage).data) = 2
    /\ Len(users) = 1
    /\ users[1].id = Bob.id
    /\ ENABLED (BodyValid /\ Len(users') = 2 /\ users'[1].id = Ann.id)

\* C33: a step in which a fetch settles because the cache write threw, after a
\* successful and well-formed response, sets the generic error message, leaves
\* the using-cached flag as it is and, when the call had no cached data, leaves
\* the live roster empty.
C33_CacheWriteFailureIsFailure ==
    [][\A i \in 1..Len(fetches) :
          SettlesWith(i, {"quota"})
          => /\ error' = MSG_GENERIC
             /\ isUsingCachedData' = isUsingCachedData
             /\ storage' = storage
             /\ ~fetches[i].hasCachedData => users' = <<>>]_vars

\* C34: in every state the search index is as long as the live roster, and
\* its i-th entry holds the i-th roster record itself and the lowercase form
\* of that record's name.
C34_IndexAlignedWithRoster ==
    /\ Len(searchIndex) = Len(users)
    /\ \A i \in 1..Len(users) :
          /\ searchIndex[i].user = users[i]
          /\ searchIndex[i].user.ref = users[i].ref
          /\ searchIndex[i].searchName = ToLowerCase(users[i].name)
          /\ Len(searchIndex[i].searchName) = Len(users[i].name)
          /\ \A c \in 1..Len(users[i].name) :
                searchIndex[i].searchName[c] \notin {"A", "B", "E", "N", "U", "Y", "Z"}

\* A fetch succeeded with two records, the next activation's background
\* refresh failed, and the first record was deleted: the index has the one
\* entry of the record left, with its name in lowercase.
C34_Witness ==
    /\ Len(fetches) = 2
    /\ fetches[1].outcome = "ok"
    /\ fetches[2].outcome \in FailedOutcomes
    /\ Len(users) = 1
    /\ users[1].name = Bob.name
    /\ Len(searchIndex) = 1
    /\ searchIndex[1].searchName = <<"b", "o", "b">>

====
